---- MODULE Spec2Model ----
(***************************************************************************)
(* The Inner Circle: registration, login, sessions, membership promotion   *)
(* and the message board, as a state machine over the user store, the      *)
(* message store and the session store.                                    *)
(*                                                                         *)
(* One action per HTTP request.  A request carries a session cookie `sid`  *)
(* (0: no cookie) and its form fields; it runs the session middleware, the *)
(* gate and the handler in one step, as one request is served from start   *)
(* to end before the next one is looked at.                                *)
(*                                                                         *)
(* Strings are sequences of one-character strings, so that trim, escape,   *)
(* lower-casing and the validators' character classes are computed.        *)
(***************************************************************************)
EXTENDS Integers, Sequences, FiniteSets, TLC

(***************************************************************************)
(* Bounds of the model.                                                    *)
(***************************************************************************)
MaxUsers == 2
MaxMessages == 1
MaxSid == 3
MaxTicks == 2
MaxPending == 2

(***************************************************************************)
(* Characters and strings.                                                 *)
(***************************************************************************)
LowerSeq == << "a","b","c","d","e","f","g","h","i","j","k","l","m",
               "n","o","p","q","r","s","t","u","v","w","x","y","z" >>
UpperSeq == << "A","B","C","D","E","F","G","H","I","J","K","L","M",
               "N","O","P","Q","R","S","T","U","V","W","X","Y","Z" >>
Range(s) == { s[i] : i \in DOMAIN s }
Lowercase == Range(LowerSeq)
Uppercase == Range(UpperSeq)
Digits == { "0","1","2","3","4","5","6","7","8","9" }
Letters == Lowercase \cup Uppercase

\* A request field that was not sent (req.body.<field> is undefined).
Undefined == << "undefined" >>

\* express-validator validates and sanitizes a missing field as "".
toString(v) == IF v = Undefined THEN << >> ELSE v

IsSpace(c) == c = " "

RECURSIVE TrimLeft(_)
TrimLeft(s) ==
  IF s = << >> THEN << >>
  ELSE IF IsSpace(Head(s)) THEN TrimLeft(Tail(s)) ELSE s

RECURSIVE TrimRight(_)
TrimRight(s) ==
  IF s = << >> THEN << >>
  ELSE IF IsSpace(s[Len(s)]) THEN TrimRight(SubSeq(s, 1, Len(s) - 1)) ELSE s

\* String.prototype.trim / the validator's trim() sanitizer.
trim(s) == TrimRight(TrimLeft(s))

ToLowerChar(c) ==
  IF c \in Uppercase
    THEN LowerSeq[CHOOSE i \in DOMAIN UpperSeq : UpperSeq[i] = c]
    ELSE c

toLowerCase(s) == [ i \in DOMAIN s |-> ToLowerChar(s[i]) ]

\* The validator's escape() sanitizer: here the apostrophe becomes &#x27;
\* (the other escaped characters, < > & " / \ `, are not in the inputs).
RECURSIVE escape(_)
escape(s) ==
  IF s = << >> THEN << >>
  ELSE IF Head(s) = "'"
    THEN << "&", "#", "x", "2", "7", ";" >> \o escape(Tail(s))
    ELSE << Head(s) >> \o escape(Tail(s))

isLength(s, min, max) == Len(s) >= min /\ Len(s) <= max
isLengthMin(s, min) == Len(s) >= min

\* matches(/^[a-zA-Z\s]+$/)
MatchesLettersSpaces(s) ==
  s # << >> /\ \A i \in DOMAIN s : s[i] \in Letters \/ IsSpace(s[i])

\* matches(/^[a-zA-Z0-9_]+$/)
MatchesAnything(s) == s # << >>
MatchesWord(s) ==
  s # << >> /\ \A i \in DOMAIN s : s[i] \in Letters \cup Digits \cup { "_" }

\* matches(/^(?=.*[a-z])(?=.*[A-Z])(?=.*\d)/)
MatchesPasswordRule(s) ==
  /\ \E i \in DOMAIN s : s[i] \in Lowercase
  /\ \E i \in DOMAIN s : s[i] \in Uppercase
  /\ \E i \in DOMAIN s : s[i] \in Digits

\* isEmail(): one "@", a non-empty local part of atom characters, and a
\* domain of dot-separated labels whose last label is two or more letters.
AtPositions(s) == { i \in DOMAIN s : s[i] = "@" }
LocalChars == Letters \cup Digits \cup { "_", ".", "'", "+", "-" }
DomainChars == Letters \cup Digits \cup { "-" }
isEmail(s) ==
  /\ Cardinality(AtPositions(s)) = 1
  /\ LET at == CHOOSE i \in DOMAIN s : s[i] = "@"
         dots == { i \in DOMAIN s : i > at /\ s[i] = "." }
     IN /\ at > 1
        /\ \A i \in 1..(at - 1) : s[i] \in LocalChars
        /\ s[1] # "." /\ s[at - 1] # "."
        /\ dots # {}
        /\ \A i \in (at + 1)..Len(s) : s[i] \in DomainChars \cup { "." }
        /\ \A i \in dots : i > at + 1 /\ i < Len(s) /\ (i + 1) \notin dots
        /\ LET lastDot == CHOOSE i \in dots : \A j \in dots : j <= i
           IN /\ Len(s) - lastDot >= 2
              /\ \A i \in (lastDot + 1)..Len(s) : s[i] \in Letters

\* normalizeEmail() with its defaults, for an address whose provider has no
\* special rule: the whole address is lower-cased.
normalizeEmail(s) == toLowerCase(s)

(***************************************************************************)
(* bcrypt: the stored hash is never the plaintext, and compare recovers    *)
(* exactly the passwords that were hashed.                                 *)
(***************************************************************************)
saltRounds == 10
bcryptHash(password, rounds) == [ alg |-> "2a", cost |-> rounds, digest |-> password ]
bcryptCompare(password, hash) == hash = bcryptHash(password, hash.cost)

(***************************************************************************)
(* Request fields the clients send.                                        *)
(***************************************************************************)
NameInputs == { << " ", "A", "l" >>, << "A" >>, << "A", "1" >> }
GoodPassword == << "A", "b", "1", "c", "d", "e" >>
PasswordInputs == { GoodPassword, << "a", "b", "c", "d", "e", "f" >>, << "A", "b", "1" >> }
AdminCode == << "a", "d", "m" >>
MemberCode == << "m", "e", "m" >>
CodeInputs == { Undefined, << >>, AdminCode, MemberCode, << " ", "m", "e", "m" >> }

\* The register forms.  Three identities: the second shares no name with the
\* first, the third shares its username with the first once trimmed and its
\* email with the second once normalized.  Each comes with and without the
\* admin code; the first also with every other code and with one field
\* changed to each of the other inputs.
ValidForm ==
  [ first_name |-> << " ", "A", "l" >>, last_name |-> << "A", "l", " " >>,
    username |-> << "a", "b", "c" >>, email |-> << "a", "@", "x", ".", "c", "o" >>,
    password |-> GoodPassword, confirm_password |-> GoodPassword,
    admin_code |-> Undefined ]
Identities ==
  { [ ValidForm EXCEPT !.admin_code = ac ] : ac \in CodeInputs }
  \cup { [ ValidForm EXCEPT !.username = << "x", "y", "z" >>,
                           !.email = << "b", "@", "x", ".", "c", "o" >>,
                           !.admin_code = ac ] : ac \in { Undefined, AdminCode } }
  \cup { [ ValidForm EXCEPT !.username = << " ", "a", "b", "c", " " >>,
                           !.email = << " ", "B", "@", "X", ".", "c", "o" >>,
                           !.admin_code = ac ] : ac \in { Undefined, AdminCode } }
RegisterForms ==
  Identities
  \cup { [ ValidForm EXCEPT !.first_name = n ] : n \in NameInputs }
  \cup { [ ValidForm EXCEPT !.last_name = n ] : n \in NameInputs }
  \cup { [ ValidForm EXCEPT !.username = un ] :
           un \in { << "a", "b" >>, << "b", "@", "x", ".", "c", "o" >> } }
  \cup { [ ValidForm EXCEPT !.email = << "a", "b", "c" >> ] }
  \cup { [ ValidForm EXCEPT !.password = pw ] : pw \in PasswordInputs }
  \cup { [ ValidForm EXCEPT !.confirm_password = << "A", "b", "1" >> ] }

\* The login forms: every identifier with the registered password, and the
\* other passwords with some of them.
LoginNameInputs ==
  { << "a", "b", "c" >>, << "a", "b", "c", " " >>, << "x", "y", "z" >>,
    << "a", "@", "x", ".", "c", "o" >>, << "A", "@", "x", ".", "c", "o" >>,
    << "n", "o" >>, << " " >> }
LoginPasswordInputs == { GoodPassword, << "b", "a", "d" >>, << >> }
LoginForms ==
  { << un, GoodPassword >> : un \in LoginNameInputs }
  \cup { << un, pw >> : un \in { << "a", "b", "c" >>, << "n", "o" >>, << " " >> },
                        pw \in LoginPasswordInputs }

TextInputs == { Undefined, << >>, << " " >>, << " ", "h", "i" >> }

\* :id of /delete-message/:id, and what parseInt(id, 10) makes of it
\* (NaN is a number no digit string parses to).
IdInputs == { << "1" >>, << " ", "1", "x" >>, << "4", "2" >>, << "x" >> }
DigitValue(c) ==
  CASE c = "0" -> 0 [] c = "1" -> 1 [] c = "2" -> 2 [] c = "3" -> 3 [] c = "4" -> 4
    [] c = "5" -> 5 [] c = "6" -> 6 [] c = "7" -> 7 [] c = "8" -> 8 [] c = "9" -> 9
NaN == -1
RECURSIVE ParseDigits(_, _)
ParseDigits(s, acc) ==
  IF s = << >> \/ Head(s) \notin Digits THEN acc
  ELSE ParseDigits(Tail(s), 10 * acc + DigitValue(Head(s)))
parseInt(s) ==
  LET t == TrimLeft(s)
  IN IF t = << >> \/ Head(t) \notin Digits THEN NaN ELSE ParseDigits(t, 0)
isNaNNever(n) == FALSE
isNaN(n) == n = NaN

\* The store answers (TRUE) or fails (FALSE) the calls of one request.
StoreAnswers == BOOLEAN

(***************************************************************************)
(* State.                                                                  *)
(***************************************************************************)
VARIABLES
  env,        \* process.env: ADMIN_SECRET_CODE, MEMBER_SECRET_CODE
  users,      \* the users table
  messages,   \* the messages table
  nextMsgId,  \* the messages table's id sequence
  sessions,   \* the session store: sid -> [user, expires]
  nextSid,    \* the next session identifier to be generated
  now,        \* the clock, in milliseconds
  pending     \* register requests between their existence check and their create

vars == << env, users, messages, nextMsgId, sessions, nextSid, now, pending >>

\* cookie.maxAge, and the pace of the model's clock.
maxAge == 24 * 60 * 60 * 1000
TickStep == maxAge \div 2 + 1

NoUser == [ id |-> 0 ]

\* A deployment with both secrets configured.
Init ==
  /\ env = [ ADMIN_SECRET_CODE |-> AdminCode, MEMBER_SECRET_CODE |-> MemberCode ]
  /\ users = {}
  /\ messages = {}
  /\ nextMsgId = 1
  /\ sessions = << >>
  /\ nextSid = 1
  /\ now = 0
  /\ pending = {}

\* A deployment whose environment lacks ADMIN_SECRET_CODE.
InitNoAdminSecret ==
  /\ env = [ ADMIN_SECRET_CODE |-> Undefined, MEMBER_SECRET_CODE |-> MemberCode ]
  /\ users = {}
  /\ messages = {}
  /\ nextMsgId = 1
  /\ sessions = << >>
  /\ nextSid = 1
  /\ now = 0
  /\ pending = {}

(***************************************************************************)
(* The session middleware (express-session with the Prisma store, rolling, *)
(* saveUninitialized: false), connect-flash and passport.session().        *)
(***************************************************************************)
\* store.get: a stored session that has not expired.
LiveUnexpiring(sid) == sid \in DOMAIN sessions
Live(sid) == sid \in DOMAIN sessions /\ now < sessions[sid].expires

\* store.get destroys the session it finds expired.
Purged(sid) ==
  [ s \in DOMAIN sessions \ (IF Live(sid) THEN {} ELSE { sid }) |-> sessions[s] ]

\* req.sessionID: the cookie's session when it is live, else a generated one.
ReqSid(sid) == IF Live(sid) THEN sid ELSE nextSid

\* req.session.passport.user
SessionUser(sid) == IF Live(sid) THEN sessions[sid].user ELSE NoUser.id

passportSerializeUser(user) == user.id

passportDeserializeUser(id) ==
  IF \E u \in users : u.id = id
    THEN CHOOSE u \in users : u.id = id
    ELSE NoUser

\* req.user, as passport.session() sets it from the session.
ReqUser(sid) ==
  IF SessionUser(sid) = NoUser.id THEN NoUser
  ELSE passportDeserializeUser(SessionUser(sid))

isAuthenticated(sid) == ReqUser(sid) # NoUser

ensureLoggedIn(sid) == isAuthenticated(sid)

\* The end of a request that neither logs in nor out: every request reads
\* the flash (index.js, the res.locals middleware), which marks a generated
\* session modified, so it is saved; a loaded one is saved or touched, and
\* either way its expiry is maxAge from now (rolling).
SavedUnrolled(sid) ==
  (ReqSid(sid) :> [ user |-> SessionUser(sid),
                    expires |-> IF Live(sid) THEN sessions[sid].expires
                                ELSE now + maxAge ])
    @@ Purged(sid)
Saved(sid) ==
  (ReqSid(sid) :> [ user |-> SessionUser(sid), expires |-> now + maxAge ])
    @@ Purged(sid)

\* req.session.regenerate (passport's logIn and logOut): the request's
\* session is destroyed and a generated one takes its place.
Regenerated(sid, user) ==
  (nextSid :> [ user |-> user, expires |-> now + maxAge ])
    @@ [ s \in DOMAIN sessions \ { sid } |-> sessions[s] ]

\* The session's part of a request whose handler leaves the principal alone.
\* A session is generated only while identifiers are left.
Served(sid) ==
  /\ Live(sid) \/ nextSid <= MaxSid
  /\ sessions' = Saved(sid)
  /\ nextSid' = IF Live(sid) THEN nextSid ELSE nextSid + 1

\* The session's part of a request that logs `user` in, or out (NoUser.id).
Rebound(sid, user) ==
  /\ nextSid <= MaxSid
  /\ sessions' = Regenerated(sid, user)
  /\ nextSid' = nextSid + 1

\* The cookies a client can send: none (0), or any identifier ever issued.
NoSid == 0
Cookies == 0..(nextSid - 1)

\* A response: status, Location of a redirect, and the message flashed,
\* rendered or sent with it.
Response(status, location, flash) ==
  [ status |-> status, location |-> location, flash |-> flash ]

\* falsy request field: !value
Falsy(v) == v = Undefined \/ v = << >>

(***************************************************************************)
(* POST /register                                                          *)
(***************************************************************************)
\* The validation chains, in order; "" when every field passes.
RegisterError(first_name, last_name, username, email, password, confirm_password) ==
  CASE ~isLength(trim(first_name), 2, 50) ->
         "First name must be between 2 and 50 characters"
    [] ~MatchesLettersSpaces(trim(first_name)) ->
         "First name can only contain letters and spaces"
    [] ~isLength(trim(last_name), 2, 50) ->
         "Last name must be between 2 and 50 characters"
    [] ~MatchesLettersSpaces(trim(last_name)) ->
         "Last name can only contain letters and spaces"
    [] ~isLength(trim(username), 3, 30) ->
         "Username must be between 3 and 30 characters"
    [] ~MatchesWord(trim(username)) ->
         "Username can only contain letters, numbers, and underscores"
    [] ~isEmail(trim(email)) ->
         "Please provide a valid email address"
    [] ~isLength(password, 6, 100) ->
         "Password must be at least 6 characters long"
    [] ~MatchesPasswordRule(password) ->
         "Password must contain at least one lowercase letter, one uppercase letter, and one number"
    [] confirm_password # password ->
         "Passwords do not match"
    [] OTHER -> ""

\* The validation chains of the route run before its handler: the first
\* error they leave, and req.body as their sanitizers leave it.
RegisterBody ==
  [ form \in RegisterForms |->
      [ error |-> RegisterError(form.first_name, form.last_name, form.username,
                                form.email, form.password, form.confirm_password),
        first_name |-> trim(form.first_name),
        last_name |-> trim(form.last_name),
        username |-> trim(form.username),
        email |-> normalizeEmail(trim(form.email)),
        password |-> form.password,
        admin_code |-> form.admin_code ] ]

\* prisma.user.findFirst({ where: { OR: [{ username }, { email }] } }):
\* the rows it may return.
findUsersByUsername(username, email) == { u \in users : u.username = username }
findUsers(username, email) ==
  { u \in users : u.username = username \/ u.email = email }

isAdminCode(admin_code) == admin_code = env.ADMIN_SECRET_CODE

\* prisma.user.create({ data })
NewUserAdminOnly(first_name, last_name, username, email, password, admin_code) ==
  [ id |-> Cardinality(users) + 1,
    first_name |-> trim(first_name),
    last_name |-> trim(last_name),
    username |-> trim(username),
    email |-> trim(email),
    password |-> bcryptHash(password, saltRounds),
    is_admin |-> isAdminCode(admin_code),
    is_member |-> FALSE ]
NewUser(first_name, last_name, username, email, password, admin_code) ==
  [ id |-> Cardinality(users) + 1,
    first_name |-> trim(first_name),
    last_name |-> trim(last_name),
    username |-> trim(username),
    email |-> trim(email),
    password |-> bcryptHash(password, saltRounds),
    is_admin |-> isAdminCode(admin_code),
    is_member |-> isAdminCode(admin_code) ]

ConflictFlash == "Username or email already exists. Please choose different ones."
RegisteredFlash == "Registration successful! Please log in with your credentials."

\* The handler: its response and the users table it leaves.
RegisterResult(form, dbOk) ==
  LET body == RegisterBody[form]
  IN IF body.error # ""
       THEN [ response |-> Response(302, "/register", body.error), users |-> users ]
     ELSE IF ~dbOk
       THEN [ response |-> Response(302, "/register",
                "An error occurred during registration. Please try again."),
              users |-> users ]
     ELSE IF findUsers(trim(body.username), trim(body.email)) # {}
       THEN [ response |-> Response(302, "/register", ConflictFlash), users |-> users ]
     ELSE [ response |-> Response(302, "/login", RegisteredFlash),
            users |-> users \cup
              { NewUser(body.first_name, body.last_name, body.username, body.email,
                        body.password, body.admin_code) } ]

Register(sid, form, dbOk) ==
  /\ Cardinality(RegisterResult(form, dbOk).users) <= MaxUsers
  /\ users' = RegisterResult(form, dbOk).users
  /\ Served(sid)
  /\ UNCHANGED << env, pending, messages, nextMsgId, now >>

(***************************************************************************)
(* POST /register as two awaits: the existence check, then the create, with *)
(* other requests served in between.                                       *)
(***************************************************************************)
\* The forms of the interleaved requests: the three identities, with and
\* without the admin code.
RaceForms == { f \in Identities : f.admin_code \in { Undefined, AdminCode } }

\* The handler up to its existence check, for a form that passes validation
\* and meets no existing user: it goes on to the create.
RegisterCheck(sid, form) ==
  /\ Cardinality(pending) < MaxPending
  /\ RegisterBody[form].error = ""
  /\ findUsers(trim(RegisterBody[form].username), trim(RegisterBody[form].email)) = {}
  /\ pending' = pending \cup { [ sid |-> sid, form |-> form ] }
  /\ UNCHANGED << env, users, messages, nextMsgId, sessions, nextSid, now >>

\* The users table holds username and email unique: a create that collides
\* with a stored row fails.
UniqueViolation(user) ==
  \E u \in users : u.username = user.username \/ u.email = user.email

\* The handler from the create on: the create throws on a collision, and the
\* handler's catch answers.
RegisterCreateResult(form) ==
  LET body == RegisterBody[form]
      user == NewUser(body.first_name, body.last_name, body.username, body.email,
                      body.password, body.admin_code)
  IN IF UniqueViolation(user)
       THEN [ response |-> Response(302, "/register",
                "An error occurred during registration. Please try again."),
              users |-> users ]
       ELSE [ response |-> Response(302, "/login", RegisteredFlash),
              users |-> users \cup { user } ]

RegisterCreate(p) ==
  /\ Cardinality(RegisterCreateResult(p.form).users) <= MaxUsers
  /\ users' = RegisterCreateResult(p.form).users
  /\ pending' = pending \ { p }
  /\ Served(p.sid)
  /\ UNCHANGED << env, messages, nextMsgId, now >>

(***************************************************************************)
(* POST /login and POST /logout                                            *)
(***************************************************************************)
\* errors.array().map(msg).join(". "); "" when both fields pass.
LoginError(username, password) ==
  LET noName == ~isLengthMin(trim(toString(username)), 1)
      noPassword == ~isLengthMin(toString(password), 1)
  IN CASE noName /\ noPassword -> "Username or email is required. Password is required"
       [] noName -> "Username or email is required"
       [] noPassword -> "Password is required"
       [] OTHER -> ""

LoginBody ==
  [ form \in LoginForms |->
      [ error |-> LoginError(form[1], form[2]),
        username |-> escape(trim(toString(form[1]))),
        password |-> form[2] ] ]

\* The LocalStrategy verify callback: what it may pass to done(err, user, info).
\* findFirst has no orderBy: any matching row may be the one it returns.
LocalStrategyUnverified(username, password, dbOk) ==
  IF ~dbOk THEN { [ err |-> TRUE, user |-> NoUser, message |-> "" ] }
  ELSE IF findUsers(username, username) = {}
    THEN { [ err |-> FALSE, user |-> NoUser, message |-> "User not found" ] }
  ELSE { [ err |-> FALSE, user |-> u, message |-> "" ] :
           u \in findUsers(username, username) }
LocalStrategy(username, password, dbOk) ==
  IF ~dbOk THEN { [ err |-> TRUE, user |-> NoUser, message |-> "" ] }
  ELSE IF findUsers(username, username) = {}
    THEN { [ err |-> FALSE, user |-> NoUser, message |-> "User not found" ] }
  ELSE { IF bcryptCompare(password, u.password)
           THEN [ err |-> FALSE, user |-> u, message |-> "" ]
           ELSE [ err |-> FALSE, user |-> NoUser, message |-> "Invalid password" ]
         : u \in findUsers(username, username) }

\* The passport.authenticate callback: the response, and the user it logs in.
Authenticated(result) ==
  IF result.err
    THEN [ response |-> Response(302, "/login", "An error occurred during login."),
           user |-> NoUser ]
  ELSE IF result.user = NoUser
    THEN [ response |-> Response(302, "/login",
             IF result.message # "" THEN result.message ELSE "Login failed."),
           user |-> NoUser ]
  ELSE [ response |-> Response(302, "/messages", "Login successful!"),
         user |-> result.user ]

\* The handler: the responses it may give, each with the user it logs in.
LoginResults(username, password, dbOk) ==
  LET body == LoginBody[<< username, password >>]
  IN IF body.error # ""
       THEN { [ response |-> Response(302, "/login", body.error), user |-> NoUser ] }
       ELSE { Authenticated(result) :
                result \in LocalStrategy(body.username, body.password, dbOk) }

Login(sid, username, password, dbOk) ==
  /\ \E result \in LoginResults(username, password, dbOk) :
       IF result.user = NoUser
         THEN Served(sid)
         ELSE Rebound(sid, passportSerializeUser(result.user))
  /\ UNCHANGED << env, pending, users, messages, nextMsgId, now >>

LogoutResponse == Response(302, "/", "You have been logged out successfully.")

Logout(sid) ==
  /\ Rebound(sid, NoUser.id)
  /\ UNCHANGED << env, pending, users, messages, nextMsgId, now >>

(***************************************************************************)
(* POST /become-member                                                     *)
(***************************************************************************)
isMemberCode(secret_code) == secret_code = env.MEMBER_SECRET_CODE

\* prisma.user.update({ where: { id }, data: { is_member: true } })
PromotedToggled(id) ==
  { IF u.id = id THEN [ u EXCEPT !.is_member = ~u.is_member ] ELSE u : u \in users }
PromotedNowhere(id) == users
PromotedAsAdmin(id) ==
  { IF u.id = id THEN [ u EXCEPT !.is_member = TRUE, !.is_admin = TRUE ] ELSE u :
      u \in users }
Promoted(id) ==
  { IF u.id = id THEN [ u EXCEPT !.is_member = TRUE ] ELSE u : u \in users }

BecomeMemberBody == [ secret_code \in CodeInputs |-> trim(toString(secret_code)) ]

PromotedFlash == "Congratulations! You are now a full member."

\* The handler behind its gate: the response, the users table it leaves,
\* and req.user as it leaves it.
BecomeMemberResult(sid, secret_code, dbOk) ==
  IF ~ensureLoggedIn(sid)
    THEN [ response |-> Response(302, "/login", ""),
           users |-> users, user |-> ReqUser(sid) ]
  ELSE IF ~isLengthMin(BecomeMemberBody[secret_code], 1)
    THEN [ response |-> Response(302, "/become-member", "Passcode is required"),
           users |-> users, user |-> ReqUser(sid) ]
  ELSE IF ~isMemberCode(BecomeMemberBody[secret_code])
    THEN [ response |-> Response(302, "/become-member",
             "Incorrect passcode. Please try again."),
           users |-> users, user |-> ReqUser(sid) ]
  ELSE IF ~dbOk
    THEN [ response |-> Response(302, "/become-member",
             "An error occurred while updating your membership."),
           users |-> users, user |-> ReqUser(sid) ]
  ELSE [ response |-> Response(302, "/messages", PromotedFlash),
         users |-> Promoted(ReqUser(sid).id),
         user |-> [ ReqUser(sid) EXCEPT !.is_member = TRUE ] ]

BecomeMember(sid, secret_code, dbOk) ==
  /\ users' = BecomeMemberResult(sid, secret_code, dbOk).users
  /\ Served(sid)
  /\ UNCHANGED << env, pending, messages, nextMsgId, now >>

(***************************************************************************)
(* The pages and the message board.                                        *)
(***************************************************************************)
\* GET /, /login, /register, /get-the-code, /self-ping: no gate, no store.
GetPage(sid) ==
  /\ Served(sid)
  /\ UNCHANGED << env, pending, users, messages, nextMsgId, now >>

GetBecomeMemberResponse(sid) ==
  IF ~ensureLoggedIn(sid) THEN Response(302, "/login", "")
  ELSE Response(200, "", "")

GetMessagesResponse(sid, dbOk) ==
  IF ~ensureLoggedIn(sid) THEN Response(302, "/login", "")
  ELSE IF ~dbOk
    THEN Response(200, "", "An error occurred while fetching messages. Please try again.")
  ELSE Response(200, "", "")

GetCreateMessageResponse(sid) ==
  IF ~ensureLoggedIn(sid) THEN Response(302, "/login", "")
  ELSE IF ~ReqUser(sid).is_member
    THEN Response(302, "/become-member",
                  "You need to become a member first to create messages.")
  ELSE Response(200, "", "")

\* GET /become-member, /messages, /create-message: gated, and read-only.
GetGated(sid) ==
  /\ Served(sid)
  /\ UNCHANGED << env, pending, users, messages, nextMsgId, now >>

\* req.user.is_member and req.user.is_admin, as the handlers' gates read them.
IsMemberSkipped(user) == TRUE
IsMember(user) == user.is_member
IsAdminSkipped(user) == TRUE
IsAdmin(user) == user.is_admin

\* prisma.message.create({ data })
NewMessage(title, text, author) ==
  [ id |-> nextMsgId, title |-> trim(title), content |-> trim(text),
    author_id |-> author.id ]

CreatedFlash == "Message created successfully!"

\* POST /create-message: the response and the messages table it leaves.
CreateMessageResult(sid, title, text, dbOk) ==
  IF ~ensureLoggedIn(sid)
    THEN [ response |-> Response(302, "/login", ""), messages |-> messages ]
  ELSE IF ~IsMember(ReqUser(sid))
    THEN [ response |-> Response(403, "", "Only members can create messages."),
           messages |-> messages ]
  ELSE IF Falsy(title) \/ Falsy(text)
    THEN [ response |-> Response(200, "",
             "Both title and message content are required."),
           messages |-> messages ]
  ELSE IF ~dbOk
    THEN [ response |-> Response(200, "",
             "Failed to create message. Please try again."),
           messages |-> messages ]
  ELSE [ response |-> Response(302, "/messages", CreatedFlash),
         messages |-> messages \cup { NewMessage(title, text, ReqUser(sid)) } ]

CreateMessage(sid, title, text, dbOk) ==
  /\ messages' = CreateMessageResult(sid, title, text, dbOk).messages
  /\ IF messages' # messages
       THEN nextMsgId <= MaxMessages /\ nextMsgId' = nextMsgId + 1
       ELSE UNCHANGED nextMsgId
  /\ Served(sid)
  /\ UNCHANGED << env, pending, users, now >>

DeletedFlash == "Message deleted successfully."

\* POST /delete-message/:id: the response and the messages table it leaves.
\* prisma.message.delete throws when the store fails or has no such row, and
\* the handler's catch answers.
DeleteMessageResult(sid, id, dbOk) ==
  IF ~ensureLoggedIn(sid)
    THEN [ response |-> Response(302, "/login", ""), messages |-> messages ]
  ELSE IF ~IsAdmin(ReqUser(sid))
    THEN [ response |-> Response(403, "",
             "You are not authorized to delete messages."),
           messages |-> messages ]
  ELSE IF isNaN(parseInt(id))
    THEN [ response |-> Response(302, "/messages", "Invalid message ID."),
           messages |-> messages ]
  ELSE IF ~dbOk \/ ~\E m \in messages : m.id = parseInt(id)
    THEN [ response |-> Response(302, "/messages", "Error deleting message."),
           messages |-> messages ]
  ELSE [ response |-> Response(302, "/messages", DeletedFlash),
         messages |-> { m \in messages : m.id # parseInt(id) } ]

DeleteMessage(sid, id, dbOk) ==
  /\ messages' = DeleteMessageResult(sid, id, dbOk).messages
  /\ Served(sid)
  /\ UNCHANGED << env, pending, users, nextMsgId, now >>

(***************************************************************************)
(* Time, and the store's periodic removal of expired sessions.             *)
(***************************************************************************)
Tick ==
  /\ now < MaxTicks * TickStep
  /\ now' = now + TickStep
  /\ UNCHANGED << env, pending, users, messages, nextMsgId, sessions, nextSid >>

\* checkPeriod: the store prunes the sessions that have expired.
Prune ==
  /\ sessions' = [ s \in { t \in DOMAIN sessions : Live(t) } |-> sessions[s] ]
  /\ UNCHANGED << env, pending, users, messages, nextMsgId, nextSid, now >>

(***************************************************************************)
(* The requests of the model: a failing store is tried on one request of   *)
(* each route that passes validation.                                      *)
(***************************************************************************)
RegisterRequests ==
  { << form, TRUE >> : form \in RegisterForms } \cup { << ValidForm, FALSE >> }
LoginRequests ==
  { << form[1], form[2], TRUE >> : form \in LoginForms }
    \cup { << << "a", "b", "c" >>, GoodPassword, FALSE >> }
BecomeMemberRequests ==
  { << code, TRUE >> : code \in CodeInputs } \cup { << MemberCode, FALSE >> }
CreateMessageRequests ==
  { << title, << " ", "h", "i" >>, TRUE >> : title \in TextInputs }
    \cup { << << " ", "h", "i" >>, text, TRUE >> : text \in { Undefined, << >> } }
    \cup { << << " ", "h", "i" >>, << " ", "h", "i" >>, FALSE >> }
DeleteMessageRequests ==
  { << id, TRUE >> : id \in IdInputs } \cup { << << "1" >>, FALSE >> }

Next ==
  \/ \E sid \in Cookies, r \in RegisterRequests : Register(sid, r[1], r[2])
  \/ \E sid \in Cookies, r \in LoginRequests : Login(sid, r[1], r[2], r[3])
  \/ \E sid \in Cookies : Logout(sid)
  \/ \E sid \in Cookies, r \in BecomeMemberRequests : BecomeMember(sid, r[1], r[2])
  \/ \E sid \in Cookies : GetPage(sid)
  \/ \E sid \in Cookies : GetGated(sid)
  \/ \E sid \in Cookies, r \in CreateMessageRequests :
       CreateMessage(sid, r[1], r[2], r[3])
  \/ \E sid \in Cookies, r \in DeleteMessageRequests : DeleteMessage(sid, r[1], r[2])
  \/ Tick
  \/ Prune

Spec == Init /\ [][Next]_vars
SpecNoAdminSecret == InitNoAdminSecret /\ [][Next]_vars

\* Register requests that interleave between check and create.
NextRace ==
  \/ \E sid \in Cookies, form \in RaceForms : RegisterCheck(sid, form)
  \/ \E p \in pending : RegisterCreate(p)

SpecRace == Init /\ [][NextRace]_vars

(***************************************************************************)
(* Properties.                                                             *)
(***************************************************************************)
\* A register form that passes validation and names a stored user, by its
\* trimmed username or its normalized email.
Duplicates(form) ==
  /\ RegisterBody[form].error = ""
  /\ \E u \in users : \/ u.username = trim(form.username)
                      \/ u.email = normalizeEmail(trim(form.email))

\* C1: a register request whose trimmed username or normalized email is that
\* of a stored user is answered with the conflict message and leaves the
\* users table as it is (whether or not the store answers); and no two
\* stored users share a username or an email.
C1_DuplicateIsConflict ==
  /\ \A form \in RegisterForms :
       Duplicates(form) =>
         /\ RegisterResult(form, TRUE).response =
              Response(302, "/register", ConflictFlash)
         /\ \A dbOk \in StoreAnswers : RegisterResult(form, dbOk).users = users
  /\ \A u1, u2 \in users :
       u1 # u2 => u1.username # u2.username /\ u1.email # u2.email /\ u1.id # u2.id

\* Two users are stored, and a form is refused that takes its username,
\* once trimmed, from one and its email, once normalized, from the other.
C1_Witness ==
  /\ Cardinality(users) = 2
  /\ \E form \in RegisterForms, u1, u2 \in users :
       /\ u1 # u2
       /\ RegisterBody[form].error = ""
       /\ form.username # u1.username /\ trim(form.username) = u1.username
       /\ form.email # u2.email /\ normalizeEmail(trim(form.email)) = u2.email
       /\ RegisterResult(form, TRUE).response.flash = ConflictFlash

\* A session identifier that was issued and is destroyed, or whose expiry
\* has passed.
Dead(sid) == sid \notin DOMAIN sessions \/ now > sessions[sid].expires

\* What a request carrying `sid` meets: no principal, and a redirect to
\* login on every gated route.
Anonymous(sid) ==
  /\ ReqUser(sid) = NoUser
  /\ GetBecomeMemberResponse(sid) = Response(302, "/login", "")
  /\ GetCreateMessageResponse(sid) = Response(302, "/login", "")
  /\ \A dbOk \in StoreAnswers :
       /\ GetMessagesResponse(sid, dbOk) = Response(302, "/login", "")
       /\ \A code \in CodeInputs :
            BecomeMemberResult(sid, code, dbOk).response = Response(302, "/login", "")
       /\ \A r \in CreateMessageRequests :
            CreateMessageResult(sid, r[1], r[2], dbOk).response =
              Response(302, "/login", "")
       /\ \A id \in IdInputs :
            DeleteMessageResult(sid, id, dbOk).response = Response(302, "/login", "")

\* C2: a session identifier on which logout is served, or that is destroyed
\* or past its expiry, is dead after every step from then on, and a dead
\* identifier resolves to no principal on any gated route.
C2_DeadSessionStaysDead ==
  /\ [][ \A sid \in Cookies \ { NoSid } :
          (Dead(sid) \/ Logout(sid)) => Dead(sid)' ]_vars
  /\ [] \A sid \in Cookies \ { NoSid } : Dead(sid) => Anonymous(sid)

\* A session bound to a user is stored past its expiry, and another
\* identifier has been destroyed.
C2_Witness ==
  /\ \E sid \in DOMAIN sessions :
       sessions[sid].user # NoUser.id /\ now > sessions[sid].expires
  /\ \E sid \in Cookies \ { NoSid } : sid \notin DOMAIN sessions

\* C3: a message is added only by a create-message request whose principal
\* is a stored member, who becomes its author; and a create-message request
\* with no principal or with a principal that is no member adds none.
C3_OnlyMembersCreate ==
  /\ [][ \A m \in messages' \ messages :
           \E sid \in Cookies, r \in CreateMessageRequests :
             /\ CreateMessage(sid, r[1], r[2], r[3])
             /\ ReqUser(sid) \in users
             /\ ReqUser(sid).is_member
             /\ m.author_id = ReqUser(sid).id ]_vars
  /\ [] \A sid \in Cookies, r \in CreateMessageRequests :
          (ReqUser(sid) = NoUser \/ ~ReqUser(sid).is_member) =>
            CreateMessageResult(sid, r[1], r[2], r[3]).messages = messages

\* A message is stored while a user who is no member holds a live session.
C3_Witness ==
  /\ messages # {}
  /\ \E sid \in Cookies : ReqUser(sid) # NoUser /\ ~ReqUser(sid).is_member

\* C4: a message is removed only by a delete-message request whose
\* principal is a stored admin; and a delete-message request with no
\* principal, or with one that is no admin (member or not), removes none.
C4_OnlyAdminsDelete ==
  /\ [][ messages \ messages' # {} =>
           \E sid \in Cookies, r \in DeleteMessageRequests :
             /\ DeleteMessage(sid, r[1], r[2])
             /\ ReqUser(sid) \in users
             /\ ReqUser(sid).is_admin ]_vars
  /\ [] \A sid \in Cookies, r \in DeleteMessageRequests :
          (ReqUser(sid) = NoUser \/ ~ReqUser(sid).is_admin) =>
            DeleteMessageResult(sid, r[1], r[2]).messages = messages

\* The message was deleted, and a member who is no admin holds a live session.
C4_Witness ==
  /\ messages = {} /\ nextMsgId > 1
  /\ \E sid \in Cookies :
       ReqUser(sid) # NoUser /\ ReqUser(sid).is_member /\ ~ReqUser(sid).is_admin

\* C5: every stored user that is an admin is a member.
C5_AdminIsMember == \A u \in users : u.is_admin => u.is_member

\* An admin is stored beside a user promoted to member.
C5_Witness ==
  \E u1, u2 \in users : u1.is_admin /\ ~u2.is_admin /\ u2.is_member

\* C6: two login attempts that pass validation and fail, one for an
\* identifier no user has and one for a wrong password, get the same response.
C6_FailuresLookAlike ==
  \A f1, f2 \in LoginForms :
    \A r1 \in LoginResults(f1[1], f1[2], TRUE), r2 \in LoginResults(f2[1], f2[2], TRUE) :
      ( /\ LoginBody[f1].error = "" /\ LoginBody[f2].error = ""
        /\ r1.user = NoUser /\ r2.user = NoUser )
        => r1.response = r2.response

\* The user a stored session is bound to (0: none).
Bound(store, sid) == IF sid \in DOMAIN store THEN store[sid].user ELSE NoUser.id

\* C7: a session comes to be bound to a user only in a step that is a login
\* request; and a login request logs a stored user in only when the store
\* answered, the form passed validation, the identifier is that user's
\* username or email and the password verifies against that user's hash.
C7_BoundOnlyByVerifiedLogin ==
  /\ [][ \A sid \in DOMAIN sessions' :
           (Bound(sessions', sid) # NoUser.id /\ Bound(sessions', sid) # Bound(sessions, sid))
             => \E c \in Cookies, r \in LoginRequests, u \in users :
                  /\ Login(c, r[1], r[2], r[3])
                  /\ u.id = Bound(sessions', sid)
                  /\ bcryptCompare(r[2], u.password) ]_vars
  /\ [] \A r \in LoginRequests :
          \A result \in LoginResults(r[1], r[2], r[3]) :
            result.user # NoUser =>
              /\ r[3]
              /\ LoginBody[<< r[1], r[2] >>].error = ""
              /\ result.user \in users
              /\ \/ result.user.username = LoginBody[<< r[1], r[2] >>].username
                 \/ result.user.email = LoginBody[<< r[1], r[2] >>].username
              /\ bcryptCompare(r[2], result.user.password)

\* A session is bound to a user for whom a login form has the wrong password.
C7_Witness ==
  \E sid \in DOMAIN sessions, f \in LoginForms :
    /\ Bound(sessions, sid) # NoUser.id
    /\ \E u \in users :
         /\ u.id = Bound(sessions, sid)
         /\ u.username = LoginBody[f].username
         /\ \A result \in LoginResults(f[1], f[2], TRUE) :
              result.response.flash = "Invalid password"

\* C8: a register request creates an admin and member exactly when it
\* supplies an admin code that equals the configured secret, and otherwise a
\* user with both flags false.
C8_AdminOnlyByCode ==
  [][ users' # users =>
        \A c \in Cookies, r \in RegisterRequests :
          Register(c, r[1], r[2]) =>
            \A u \in users' \ users :
              LET granted == /\ r[1].admin_code # Undefined
                             /\ env.ADMIN_SECRET_CODE # Undefined
                             /\ r[1].admin_code = env.ADMIN_SECRET_CODE
              IN u.is_admin = granted /\ u.is_member = granted ]_vars

\* C9: a become-member request of a logged-in principal with the member
\* code succeeds and makes that user, and nothing else, a member; when the
\* principal is a member already it changes nothing; and after a request
\* that promoted its principal, the same request served next succeeds again
\* and leaves the users table as the first left it.
C9_PromotionIdempotent ==
  /\ [] \A sid \in Cookies :
          ensureLoggedIn(sid) =>
            /\ BecomeMemberResult(sid, MemberCode, TRUE).response =
                 Response(302, "/messages", PromotedFlash)
            /\ BecomeMemberResult(sid, MemberCode, TRUE).users =
                 (users \ { ReqUser(sid) })
                   \cup { [ ReqUser(sid) EXCEPT !.is_member = TRUE ] }
            /\ ReqUser(sid).is_member =>
                 BecomeMemberResult(sid, MemberCode, TRUE).users = users
  /\ [][ users' # users =>
          \A sid \in Cookies :
            (ensureLoggedIn(sid) /\ BecomeMember(sid, MemberCode, TRUE)) =>
              /\ ensureLoggedIn(sid)'
              /\ BecomeMemberResult(sid, MemberCode, TRUE)'.response =
                   Response(302, "/messages", PromotedFlash)
              /\ BecomeMemberResult(sid, MemberCode, TRUE)'.users = users' ]_vars

\* A user who is no admin has been promoted and holds a live session.
C9_Witness ==
  \E sid \in Cookies :
    ReqUser(sid) # NoUser /\ ReqUser(sid).is_member /\ ~ReqUser(sid).is_admin

\* C10: the become-member request that succeeds leaves req.user a member,
\* the very record it leaves in the users table; after a request that
\* promoted its principal, every session bound to that user resolves to a
\* member; a request's principal is always the record now in the users
\* table; and a stored member stays one.
C10_PromotionSeenEverywhere ==
  /\ [] \A sid \in Cookies, r \in BecomeMemberRequests :
          BecomeMemberResult(sid, r[1], r[2]).response.flash = PromotedFlash =>
            /\ BecomeMemberResult(sid, r[1], r[2]).user.is_member
            /\ BecomeMemberResult(sid, r[1], r[2]).user.id = ReqUser(sid).id
            /\ BecomeMemberResult(sid, r[1], r[2]).user
                 \in BecomeMemberResult(sid, r[1], r[2]).users
  /\ [] \A sid \in Cookies : ReqUser(sid) # NoUser => ReqUser(sid) \in users
  /\ [][ users' # users =>
          \A sid \in Cookies :
            (ensureLoggedIn(sid) /\ BecomeMember(sid, MemberCode, TRUE)) =>
              \A other \in Cookies :
                ReqUser(other)'.id = ReqUser(sid).id => ReqUser(other)'.is_member ]_vars
  /\ [][ \A u \in users :
           u.is_member => \E v \in users' : v.id = u.id /\ v.is_member ]_vars

\* Two live sessions are bound to one user, who was promoted.
C10_Witness ==
  \E s1, s2 \in Cookies :
    /\ s1 # s2
    /\ ReqUser(s1) # NoUser /\ ReqUser(s1) = ReqUser(s2)
    /\ ReqUser(s1).is_member /\ ~ReqUser(s1).is_admin

\* C11: a register request that passed its existence check and whose create
\* meets a user with its username or email, stored in between, is answered
\* with the conflict message, as a sequential duplicate is, and creates no user.
C11_RaceLoserGetsConflict ==
  \A p \in pending :
    findUsers(trim(RegisterBody[p.form].username), trim(RegisterBody[p.form].email)) # {}
      => /\ RegisterCreateResult(p.form).response =
              Response(302, "/register", ConflictFlash)
         /\ RegisterCreateResult(p.form).users = users

\* C12: a create-message request whose title or text is empty once trimmed
\* stores no message, and no stored message has an empty title or content.
C12_NoEmptyMessage ==
  /\ \A m \in messages : m.title # << >> /\ m.content # << >>
  /\ \A sid \in Cookies, r \in CreateMessageRequests :
       (trim(toString(r[1])) = << >> \/ trim(toString(r[2])) = << >>)
         => CreateMessageResult(sid, r[1], r[2], r[3]).messages = messages

\* C14: a delete-message request whose principal is absent or is no admin is
\* answered 403, never with a redirect.
C14_GateForbidsNeverRedirects ==
  \A sid \in Cookies, r \in DeleteMessageRequests :
    (ReqUser(sid) = NoUser \/ ~ReqUser(sid).is_admin)
      => DeleteMessageResult(sid, r[1], r[2]).response.status = 403

\* C15: a logged-in principal that is no member is redirected to
\* /become-member with a message, by the create-message page and by its submit.
C15_NonMemberSentToBecomeMember ==
  \A sid \in Cookies :
    (ReqUser(sid) # NoUser /\ ~ReqUser(sid).is_member) =>
      /\ GetCreateMessageResponse(sid).status = 302
      /\ GetCreateMessageResponse(sid).location = "/become-member"
      /\ GetCreateMessageResponse(sid).flash # ""
      /\ \A r \in CreateMessageRequests :
           /\ CreateMessageResult(sid, r[1], r[2], r[3]).response.status = 302
           /\ CreateMessageResult(sid, r[1], r[2], r[3]).response.location = "/become-member"
           /\ CreateMessageResult(sid, r[1], r[2], r[3]).response.flash # ""

\* C13: an admin's delete-message request for an id that does not parse, or
\* that parses to the id of no stored message, is answered with a redirect to
\* /messages (never a 500) carrying "Invalid message ID." in the first case
\* and "Error deleting message." in the second, whether or not the store
\* answers, and leaves the messages table as it is.
C13_MissingIdFailsSoftly ==
  \A sid \in Cookies, id \in IdInputs, dbOk \in StoreAnswers :
    ( /\ ReqUser(sid) # NoUser
      /\ ReqUser(sid).is_admin
      /\ \/ parseInt(id) = NaN
         \/ ~\E m \in messages : m.id = parseInt(id) )
      => /\ DeleteMessageResult(sid, id, dbOk).response.status = 302
         /\ DeleteMessageResult(sid, id, dbOk).response.location = "/messages"
         /\ DeleteMessageResult(sid, id, dbOk).response.flash =
              (IF parseInt(id) = NaN THEN "Invalid message ID."
                                     ELSE "Error deleting message.")
         /\ DeleteMessageResult(sid, id, dbOk).messages = messages

\* An admin holds a live session while a message is stored, and some id
\* parses to a number that is the id of no message.
C13_Witness ==
  /\ messages # {}
  /\ \E sid \in Cookies : ReqUser(sid) # NoUser /\ ReqUser(sid).is_admin
  /\ \E id \in IdInputs :
       parseInt(id) # NaN /\ ~\E m \in messages : m.id = parseInt(id)

\* C16: in every step each stored user stays stored with its id, its
\* is_admin and every other attribute; is_member never goes from true to
\* false, and goes from false to true only in a become-member step of that
\* user that succeeds.
C16_RoleFlagsMonotone ==
  [][ \A u \in users :
        \E v \in users' :
          /\ v.id = u.id
          /\ v.is_admin = u.is_admin
          /\ u.is_member => v.is_member
          /\ [ v EXCEPT !.is_member = u.is_member ] = u
          /\ v.is_member # u.is_member =>
               \E sid \in Cookies, r \in BecomeMemberRequests :
                 /\ BecomeMember(sid, r[1], r[2])
                 /\ ReqUser(sid).id = u.id
                 /\ BecomeMemberResult(sid, r[1], r[2]).response.flash = PromotedFlash
    ]_vars

\* Two users are stored: one promoted to member, who is no admin, and one
\* who is neither.
C16_Witness ==
  \E u1, u2 \in users :
    /\ u1.is_member /\ ~u1.is_admin
    /\ ~u2.is_member /\ ~u2.is_admin

\* C17: a become-member request leaves every user but its principal as it
\* is, changes of its principal at most is_member, and leaves the messages
\* alone; and when the code supplied is not the member secret, or the store
\* fails, it leaves the users table and req.user as they are.
C17_BecomeMemberFrame ==
  /\ \A sid \in Cookies, r \in BecomeMemberRequests :
       /\ \A u \in users :
            u.id # ReqUser(sid).id => u \in BecomeMemberResult(sid, r[1], r[2]).users
       /\ \A v \in BecomeMemberResult(sid, r[1], r[2]).users :
            \E u \in users : [ v EXCEPT !.is_member = u.is_member ] = u
       /\ (r[1] # env.MEMBER_SECRET_CODE \/ ~r[2]) =>
            /\ BecomeMemberResult(sid, r[1], r[2]).users = users
            /\ BecomeMemberResult(sid, r[1], r[2]).user = ReqUser(sid)

\* C18: a request to a gated route that resolves no principal is redirected
\* to /login and leaves the users, the messages and the session store as
\* they are.
C18_AnonymousGatedChangesNothing ==
  /\ [] \A sid \in Cookies : ReqUser(sid) = NoUser => Anonymous(sid)
  /\ [][ \A sid \in Cookies :
           (ReqUser(sid) = NoUser /\ GetGated(sid))
             => UNCHANGED << users, messages, sessions >> ]_vars

\* C19: a request served on a live session leaves it with the same user and
\* an expiry of maxAge from now; a live session bound to a user resolves to
\* that user; and it is kept, bound as it was and with its expiry or a
\* renewed one, by every step but its own logout or login: so it resolves as
\* long as each request comes before the expiry the last one set.
C19_RollingExpiry ==
  /\ [] \A sid \in DOMAIN sessions :
          Live(sid) =>
            /\ Saved(sid)[sid] = [ user |-> sessions[sid].user, expires |-> now + maxAge ]
            /\ sessions[sid].user # NoUser.id => ReqUser(sid).id = sessions[sid].user
  /\ [][ \A sid \in DOMAIN sessions :
           Live(sid) =>
             \/ /\ sid \in DOMAIN sessions'
                /\ sessions'[sid].user = sessions[sid].user
                /\ sessions'[sid].expires \in { sessions[sid].expires, now + maxAge }
             \/ /\ sid \notin DOMAIN sessions'
                /\ nextSid' = nextSid + 1
                /\ Logout(sid) \/ \E r \in LoginRequests : Login(sid, r[1], r[2], r[3])
    ]_vars
  /\ [][ \A sid \in DOMAIN sessions :
           (Live(sid) /\ GetGated(sid)) => sessions'[sid].expires = now + maxAge ]_vars

\* More than maxAge has passed since a session was issued to a user (a later
\* identifier was last served at time 0), and it still resolves to that user.
C19_Witness ==
  \E s1, s2 \in DOMAIN sessions :
    /\ s1 < s2
    /\ sessions[s2].expires = maxAge
    /\ now > maxAge
    /\ Live(s1)
    /\ ReqUser(s1) # NoUser

\* The identifiers a login may look up: those of the login forms, and every
\* stored username and email.
Identifiers ==
  { LoginBody[f].username : f \in LoginForms }
    \cup { u.username : u \in users } \cup { u.email : u \in users }

\* C20: no stored username is a stored email, and every identifier matches
\* at most one stored user by username or email.
C20_IdentifierMatchesAtMostOne ==
  /\ \A u1, u2 \in users : u1.username # u2.email
  /\ \A id \in Identifiers : Cardinality(findUsers(id, id)) <= 1

\* Two users are stored, and a login form names one of them by its email
\* and another names the other by its username.
C20_Witness ==
  /\ Cardinality(users) = 2
  /\ \E f1, f2 \in LoginForms, u1, u2 \in users :
       /\ u1 # u2
       /\ u1.email = LoginBody[f1].username
       /\ u2.username = LoginBody[f2].username
       /\ findUsers(LoginBody[f1].username, LoginBody[f1].username) = { u1 }
       /\ findUsers(LoginBody[f2].username, LoginBody[f2].username) = { u2 }

====
